---------------------------- MODULE Spec2Model ----------------------------
(***************************************************************************)
(* A model of src/internal/clients/clients.go: the per-client session of   *)
(* an MQTT broker.  The module holds several specifications, one for each  *)
(* part of the session: the start/stop lifecycle (Spec, SpecFair), the     *)
(* keepalive deadline (SpecDeadline), the packet id counter (SpecPidSeq,   *)
(* SpecPid), the read path (SpecFH, SpecRead) and the write path           *)
(* (SpecWrite).  Each specification moves its own group of variables and   *)
(* leaves the other groups at rest.                                        *)
(***************************************************************************)
EXTENDS Integers, Sequences, FiniteSets, TLC

(***************************************************************************)
(* Bounds of the model.                                                    *)
(***************************************************************************)
\* number of tasks other than the two drainers that call Stop()
NumExternal == 2

(***************************************************************************)
(* The lifecycle: Client.Start, Client.Stop, clientState.                  *)
(***************************************************************************)
VARIABLES
    pc,        \* position of every task in Start / the drainer bodies / Stop
    started,   \* counter of state.started  (sync.WaitGroup)
    endedW,    \* counter of state.endedW   (sync.WaitGroup)
    endedR,    \* counter of state.endedR   (sync.WaitGroup)
    done,      \* state.done
    onceDone,  \* state.endOnce: its done word
    onceM,     \* state.endOnce: the holder of its mutex, or NoTask
    rStopped,  \* cl.r.Stop() has been called
    wStopped,  \* cl.w.Stop() has been called
    panicked,  \* a goroutine panicked: the process is gone
    bodyRuns   \* how many times the function passed to endOnce.Do was entered

lifeVars == <<pc, started, endedW, endedR, done, onceDone, onceM,
              rStopped, wStopped, panicked, bodyRuns>>


Starter == <<"start", 0>>
WriterTask == <<"W", 0>>
ReaderTask == <<"R", 0>>
NoTask == <<"none", 0>>
Externals == {<<"E", i>> : i \in 1..NumExternal}
Drainers == {WriterTask, ReaderTask}
Callers == Drainers \cup Externals
Tasks == {Starter} \cup Callers

\* the positions of a task inside Stop()
StopPcs == {"once_load", "once_lock", "once_check", "body_rstop", "body_wstop",
            "body_waitW", "body_waitR", "body_done", "once_store", "once_unlock"}

\* a drainer has returned from its drain call and signalled its ended marker
Exited(d) == pc[d] \in {"call_stop", "returned"} \cup StopPcs

\* NewClient: the state of a session after construction
clientState ==
    /\ pc = [t \in Tasks |->
               IF t = Starter THEN "start_add"
               ELSE IF t \in Drainers THEN "unspawned" ELSE "idle"]
    /\ started = 0
    /\ endedW = 0
    /\ endedR = 0
    /\ done = 0
    /\ onceDone = 0
    /\ onceM = NoTask
    /\ rStopped = FALSE
    /\ wStopped = FALSE
    /\ panicked = FALSE
    /\ bodyRuns = 0

\* ---- Start() ----------------------------------------------------------
\* cl.state.started.Add(2)
StartAdd ==
    /\ ~panicked
    /\ pc[Starter] = "start_add"
    /\ started' = started + 2
    /\ pc' = [pc EXCEPT ![Starter] = "go_writer"]
    /\ UNCHANGED <<endedW, endedR, done, onceDone, onceM, rStopped, wStopped,
                   panicked, bodyRuns>>

\* go func() { ... writer ... }()
GoWriter ==
    /\ ~panicked
    /\ pc[Starter] = "go_writer"
    /\ pc' = [pc EXCEPT ![Starter] = "add_endedW", ![WriterTask] = "spawned"]
    /\ UNCHANGED <<started, endedW, endedR, done, onceDone, onceM, rStopped,
                   wStopped, panicked, bodyRuns>>

\* cl.state.endedW.Add(1)
AddEndedW ==
    /\ ~panicked
    /\ pc[Starter] = "add_endedW"
    /\ endedW' = endedW + 1
    /\ pc' = [pc EXCEPT ![Starter] = "go_reader"]
    /\ UNCHANGED <<started, endedR, done, onceDone, onceM, rStopped, wStopped,
                   panicked, bodyRuns>>

\* go func() { ... reader ... }()
GoReader ==
    /\ ~panicked
    /\ pc[Starter] = "go_reader"
    /\ pc' = [pc EXCEPT ![Starter] = "add_endedR", ![ReaderTask] = "spawned"]
    /\ UNCHANGED <<started, endedW, endedR, done, onceDone, onceM, rStopped,
                   wStopped, panicked, bodyRuns>>

\* cl.state.endedR.Add(1)
AddEndedR ==
    /\ ~panicked
    /\ pc[Starter] = "add_endedR"
    /\ endedR' = endedR + 1
    /\ pc' = [pc EXCEPT ![Starter] = "wait_started"]
    /\ UNCHANGED <<started, endedW, done, onceDone, onceM, rStopped, wStopped,
                   panicked, bodyRuns>>

\* cl.state.started.Wait()
StartWait ==
    /\ ~panicked
    /\ pc[Starter] = "wait_started"
    /\ started = 0
    /\ pc' = [pc EXCEPT ![Starter] = "returned"]
    /\ UNCHANGED <<started, endedW, endedR, done, onceDone, onceM, rStopped,
                   wStopped, panicked, bodyRuns>>

Start == StartAdd \/ GoWriter \/ AddEndedW \/ GoReader \/ AddEndedR \/ StartWait

\* ---- the two drainer goroutines ---------------------------------------
\* cl.state.started.Done()
DrainerStarted(d) ==
    /\ ~panicked
    /\ pc[d] = "spawned"
    /\ started' = started - 1
    /\ pc' = [pc EXCEPT ![d] = "drain"]
    /\ UNCHANGED <<endedW, endedR, done, onceDone, onceM, rStopped, wStopped,
                   panicked, bodyRuns>>

\* cl.w.WriteTo(cl.conn) / cl.r.ReadFrom(cl.conn) returns because the
\* connection failed (an I/O error, the keepalive deadline)
DrainError(d) ==
    /\ ~panicked
    /\ pc[d] = "drain"
    /\ pc' = [pc EXCEPT ![d] = "exited"]
    /\ UNCHANGED <<started, endedW, endedR, done, onceDone, onceM, rStopped,
                   wStopped, panicked, bodyRuns>>

\* cl.w.WriteTo(cl.conn) / cl.r.ReadFrom(cl.conn) returns because its half
\* of the channel was asked to stop
DrainStopped(d) ==
    /\ ~panicked
    /\ pc[d] = "drain"
    /\ IF d = WriterTask THEN wStopped ELSE rStopped
    /\ pc' = [pc EXCEPT ![d] = "exited"]
    /\ UNCHANGED <<started, endedW, endedR, done, onceDone, onceM, rStopped,
                   wStopped, panicked, bodyRuns>>

\* a drainer that calls Stop() before it signals its ended marker: the signal
\* is not given by the time Stop() waits for it
DrainerEndedNotSignalled(d) ==
    /\ ~panicked
    /\ pc[d] = "exited"
    /\ pc' = [pc EXCEPT ![d] = "call_stop"]
    /\ UNCHANGED <<started, endedW, endedR, done, onceDone, onceM, rStopped,
                   wStopped, panicked, bodyRuns>>

\* cl.state.endedW.Done() / cl.state.endedR.Done(): a WaitGroup counter that
\* would drop below zero panics ("sync: negative WaitGroup counter")
DrainerEnded(d) ==
    /\ ~panicked
    /\ pc[d] = "exited"
    /\ LET n == IF d = WriterTask THEN endedW ELSE endedR IN
       IF n = 0
       THEN /\ panicked' = TRUE
            /\ UNCHANGED <<pc, endedW, endedR>>
       ELSE /\ panicked' = FALSE
            /\ pc' = [pc EXCEPT ![d] = "call_stop"]
            /\ endedW' = IF d = WriterTask THEN endedW - 1 ELSE endedW
            /\ endedR' = IF d = ReaderTask THEN endedR - 1 ELSE endedR
    /\ UNCHANGED <<started, done, onceDone, onceM, rStopped, wStopped, bodyRuns>>

\* cl.Stop() at the end of a drainer goroutine
DrainerCallsStop(d) ==
    /\ ~panicked
    /\ pc[d] = "call_stop"
    /\ pc' = [pc EXCEPT ![d] = "once_load"]
    /\ UNCHANGED <<started, endedW, endedR, done, onceDone, onceM, rStopped,
                   wStopped, panicked, bodyRuns>>

\* cl.Stop() called by the broker on a session it has started
ExternalCallsStop(e) ==
    /\ ~panicked
    /\ pc[e] = "idle"
    /\ pc[Starter] = "returned"
    /\ pc' = [pc EXCEPT ![e] = "once_load"]
    /\ UNCHANGED <<started, endedW, endedR, done, onceDone, onceM, rStopped,
                   wStopped, panicked, bodyRuns>>

\* ---- Stop(): cl.state.endOnce.Do(func() { ... }) ----------------------
\* sync.Once.Do: if atomic.LoadUint32(&o.done) == 0 { o.doSlow(f) }
OnceLoad(p) ==
    /\ ~panicked
    /\ pc[p] = "once_load"
    /\ pc' = [pc EXCEPT ![p] = IF onceDone = 0 THEN "once_lock" ELSE "returned"]
    /\ UNCHANGED <<started, endedW, endedR, done, onceDone, onceM, rStopped,
                   wStopped, panicked, bodyRuns>>

\* doSlow: o.m.Lock()
OnceLock(p) ==
    /\ ~panicked
    /\ pc[p] = "once_lock"
    /\ onceM = NoTask
    /\ onceM' = p
    /\ pc' = [pc EXCEPT ![p] = "once_check"]
    /\ UNCHANGED <<started, endedW, endedR, done, onceDone, rStopped, wStopped,
                   panicked, bodyRuns>>

\* a once-gate that lost its check: the function runs for every caller
OnceCheckNoGate(p) ==
    /\ ~panicked
    /\ pc[p] = "once_check"
    /\ bodyRuns' = bodyRuns + 1
    /\ pc' = [pc EXCEPT ![p] = "body_rstop"]
    /\ UNCHANGED <<started, endedW, endedR, done, onceDone, onceM, rStopped,
                   wStopped, panicked>>

\* doSlow: if o.done == 0 { defer atomic.StoreUint32(&o.done, 1); f() }
OnceCheck(p) ==
    /\ ~panicked
    /\ pc[p] = "once_check"
    /\ IF onceDone = 0
       THEN /\ bodyRuns' = bodyRuns + 1
            /\ pc' = [pc EXCEPT ![p] = "body_rstop"]
       ELSE /\ bodyRuns' = bodyRuns
            /\ pc' = [pc EXCEPT ![p] = "once_unlock"]
    /\ UNCHANGED <<started, endedW, endedR, done, onceDone, onceM, rStopped,
                   wStopped, panicked>>

\* cl.r.Stop()
StopReader(p) ==
    /\ ~panicked
    /\ pc[p] = "body_rstop"
    /\ rStopped' = TRUE
    /\ pc' = [pc EXCEPT ![p] = "body_wstop"]
    /\ UNCHANGED <<started, endedW, endedR, done, onceDone, onceM, wStopped,
                   panicked, bodyRuns>>

\* cl.w.Stop()
StopWriter(p) ==
    /\ ~panicked
    /\ pc[p] = "body_wstop"
    /\ wStopped' = TRUE
    /\ pc' = [pc EXCEPT ![p] = "body_waitW"]
    /\ UNCHANGED <<started, endedW, endedR, done, onceDone, onceM, rStopped,
                   panicked, bodyRuns>>

\* cl.state.endedW.Wait()
WaitEndedW(p) ==
    /\ ~panicked
    /\ pc[p] = "body_waitW"
    /\ endedW = 0
    /\ pc' = [pc EXCEPT ![p] = "body_waitR"]
    /\ UNCHANGED <<started, endedW, endedR, done, onceDone, onceM, rStopped,
                   wStopped, panicked, bodyRuns>>

\* cl.state.endedR.Wait()
WaitEndedR(p) ==
    /\ ~panicked
    /\ pc[p] = "body_waitR"
    /\ endedR = 0
    /\ pc' = [pc EXCEPT ![p] = "body_done"]
    /\ UNCHANGED <<started, endedW, endedR, done, onceDone, onceM, rStopped,
                   wStopped, panicked, bodyRuns>>

\* atomic.StoreInt64(&cl.state.done, 1)
StoreDone(p) ==
    /\ ~panicked
    /\ pc[p] = "body_done"
    /\ done' = 1
    /\ pc' = [pc EXCEPT ![p] = "once_store"]
    /\ UNCHANGED <<started, endedW, endedR, onceDone, onceM, rStopped, wStopped,
                   panicked, bodyRuns>>

\* doSlow: the deferred atomic.StoreUint32(&o.done, 1)
OnceStore(p) ==
    /\ ~panicked
    /\ pc[p] = "once_store"
    /\ onceDone' = 1
    /\ pc' = [pc EXCEPT ![p] = "once_unlock"]
    /\ UNCHANGED <<started, endedW, endedR, done, onceM, rStopped, wStopped,
                   panicked, bodyRuns>>

\* doSlow: the deferred o.m.Unlock()
OnceUnlock(p) ==
    /\ ~panicked
    /\ pc[p] = "once_unlock"
    /\ onceM' = NoTask
    /\ pc' = [pc EXCEPT ![p] = "returned"]
    /\ UNCHANGED <<started, endedW, endedR, done, onceDone, rStopped, wStopped,
                   panicked, bodyRuns>>

Stop(p) ==
    \/ OnceLoad(p) \/ OnceLock(p) \/ OnceCheck(p)
    \/ StopReader(p) \/ StopWriter(p) \/ WaitEndedW(p) \/ WaitEndedR(p)
    \/ StoreDone(p)
    \/ OnceStore(p) \/ OnceUnlock(p)

Drainer(d) ==
    \/ DrainerStarted(d) \/ DrainError(d) \/ DrainStopped(d)
    \/ DrainerEnded(d) \/ DrainerCallsStop(d)

LifeNext ==
    \/ Start
    \/ \E d \in Drainers : Drainer(d)
    \/ \E e \in Externals : ExternalCallsStop(e)
    \/ \E p \in Callers : Stop(p)

(***************************************************************************)
(* The keepalive deadline: Client.refreshDeadline, NewClient, Identify.    *)
(***************************************************************************)
VARIABLES
    keepalive,    \* cl.keepalive, a uint16
    connPresent,  \* cl.conn != nil
    now,          \* time.Now(), in seconds
    deadline,     \* the deadline installed on cl.conn, or NoDeadline
    dlAt,         \* the time of the last conn.SetDeadline call, -1 before any
    identified    \* Identify has been called (the CONNECT packet was seen)

dlVars == <<keepalive, connPresent, now, deadline, dlAt, identified>>

\* latest clock value of the model
MaxNow == 1

\* the width of keepalive
Uint16 == 65536

defaultKeepalive == 10

\* the zero time.Time: SetDeadline(time.Time{}) removes the deadline
NoDeadline == -1

\* expiry = time.Now().Add(time.Duration(keepalive+(keepalive/2)) * time.Second)
\* keepalive+(keepalive/2) is a uint16 sum; it is widened after it is taken
Expiry(k, t) ==
    IF k > 0 THEN t + ((k + (k \div 2)) % Uint16) ELSE NoDeadline

\* refreshDeadline(keepalive): the deadline of the connection after the call
refreshDeadline(k) ==
    /\ deadline' = IF connPresent THEN Expiry(k, now) ELSE deadline
    /\ dlAt' = IF connPresent THEN now ELSE dlAt

\* NewClient: keepalive: defaultKeepalive, then cl.refreshDeadline(cl.keepalive)
NewClient(c, t) ==
    /\ connPresent = c
    /\ keepalive = defaultKeepalive
    /\ deadline = IF c THEN Expiry(defaultKeepalive, t) ELSE NoDeadline
    /\ dlAt = IF c THEN t ELSE -1
    /\ identified = FALSE

\* Identify: cl.keepalive = pk.Keepalive; cl.refreshDeadline(cl.keepalive)
\* (the broker identifies a session once, on its CONNECT packet)
Identify(k) ==
    /\ ~identified
    /\ identified' = TRUE
    /\ keepalive' = k
    /\ refreshDeadline(k)
    /\ UNCHANGED <<connPresent, now>>

\* a deadline refresh at a packet boundary: cl.refreshDeadline(cl.keepalive)
Refresh ==
    /\ refreshDeadline(keepalive)
    /\ UNCHANGED <<keepalive, connPresent, now, identified>>

\* a second passes
Tick ==
    /\ now < MaxNow
    /\ now' = now + 1
    /\ UNCHANGED <<keepalive, connPresent, deadline, dlAt, identified>>

DeadlineInit == \E c \in BOOLEAN : NewClient(c, 0) /\ now = 0

DeadlineNext ==
    \/ ~identified /\ \E k \in 0..(Uint16 - 1) : Identify(k)
    \/ Refresh
    \/ Tick

(***************************************************************************)
(* The outbound packet id counter: Client.NextPacketID.                    *)
(***************************************************************************)
VARIABLES
    packetID,  \* cl.packetID, a uint32
    pidPc,     \* position of every caller in NextPacketID
    pidI,      \* the local i of every caller
    pidRet,    \* the value the last call of every caller returned, -1 if none
    pidPrev,   \* the value the call before that returned, -1 if none
    pidHist,   \* the values returned so far, in order of return
    pidCalls   \* the number of calls every caller has made, where counted

pidVars == <<packetID, pidPc, pidI, pidRet, pidPrev, pidHist, pidCalls>>

\* concurrent callers of NextPacketID, and the calls each makes
NumPidCallers == 2
MaxPidCalls == 2

MaxPacketID == 65535

PidCallers == 1..NumPidCallers

\* a wrap test that forgets the upper end of the range
PidWrapsAtZeroOnly(i) == i = 0

\* if i == uint32(65535) || i == uint32(0)
PidWraps(i) == i = MaxPacketID \/ i = 0

\* the caller enters NextPacketID; counted calls are capped at MaxPidCalls
PidCall(c, counted) ==
    /\ pidPc[c] = "idle"
    /\ counted => pidCalls[c] < MaxPidCalls
    /\ pidCalls' = IF counted THEN [pidCalls EXCEPT ![c] = @ + 1] ELSE pidCalls
    /\ pidPc' = [pidPc EXCEPT ![c] = "load"]
    /\ UNCHANGED <<packetID, pidI, pidRet, pidPrev, pidHist>>

\* i := atomic.LoadUint32(&cl.packetID)
PidLoad(c) ==
    /\ pidPc[c] = "load"
    /\ pidI' = [pidI EXCEPT ![c] = packetID]
    /\ pidPc' = [pidPc EXCEPT ![c] = "loaded"]
    /\ UNCHANGED <<packetID, pidRet, pidPrev, pidHist, pidCalls>>

\* the caller receives v
PidReturn(c, v, counted) ==
    /\ pidPrev' = [pidPrev EXCEPT ![c] = pidRet[c]]
    /\ pidRet' = [pidRet EXCEPT ![c] = v]
    /\ pidHist' = IF counted THEN Append(pidHist, v) ELSE pidHist
    /\ pidPc' = [pidPc EXCEPT ![c] = "idle"]

\* atomic.StoreUint32(&cl.packetID, 1); return 1
PidStore(c, counted) ==
    /\ pidPc[c] = "loaded"
    /\ PidWraps(pidI[c])
    /\ packetID' = 1
    /\ PidReturn(c, 1, counted)
    /\ UNCHANGED <<pidI, pidCalls>>

\* return atomic.AddUint32(&cl.packetID, 1); the sum wraps at 2^32, which no
\* run of the model comes near: the counter grows by one per call
PidAdd(c, counted) ==
    /\ pidPc[c] = "loaded"
    /\ ~PidWraps(pidI[c])
    /\ packetID' = packetID + 1
    /\ PidReturn(c, packetID', counted)
    /\ UNCHANGED <<pidI, pidCalls>>

NextPacketID(c, counted) ==
    \/ PidCall(c, counted)
    \/ PidLoad(c)
    \/ PidStore(c, counted)
    \/ PidAdd(c, counted)

\* the counter after it has reached the value start by sequential calls
\* (0: a new session, no call made yet)
PidInit(start) ==
    /\ packetID = start
    /\ pidPc = [c \in PidCallers |-> "idle"]
    /\ pidI = [c \in PidCallers |-> 0]
    /\ pidRet = [c \in PidCallers |-> IF c = 1 /\ start > 0 THEN start ELSE -1]
    /\ pidPrev = [c \in PidCallers |-> IF c = 1 /\ start > 1 THEN start - 1 ELSE -1]
    /\ pidHist = <<>>
    /\ pidCalls = [c \in PidCallers |-> 0]

\* counter values a session reaches by sequential calls from 0
PidStarts == {0, 1, MaxPacketID - 2, MaxPacketID - 1, MaxPacketID}

PidSeqInit == \E s \in PidStarts : PidInit(s)

\* one caller, calling again and again
PidSeqNext == NextPacketID(1, FALSE)

PidConcInit == \E s \in PidStarts : PidInit(s)

PidConcNext == \E c \in PidCallers : NextPacketID(c, TRUE)

(***************************************************************************)
(* The read path: Client.ReadFixedHeader, Client.ReadPacket, Client.Read.  *)
(* The bytes a client sends are a sequence of packets; a packet is its     *)
(* control byte, its remaining-length bytes, the number of payload bytes   *)
(* that follow, and whether the codec decodes that payload.                *)
(***************************************************************************)
VARIABLES
    rStream,  \* the packets the client sends, in wire order
    rHead,    \* cl.r: the number of bytes buffered so far
    rTail,    \* cl.r: the number of bytes committed so far
    rdPc,     \* position of the task that runs Read
    rdStart,  \* the tail when the fixed header now decoded was begun
    fhType,   \* fh.Type
    fhRem,    \* fh.Remaining
    fhI,      \* ReadFixedHeader: i
    fhN,      \* ReadFixedHeader: n
    fhBuf,    \* ReadFixedHeader: buf
    rdErr,    \* what ReadFixedHeader or Read returned, "" while running
    handled   \* the handler's invocations: <<start offset, type, remaining>>

rdVars == <<rStream, rHead, rTail, rdPc, rdStart, fhType, fhRem, fhI, fhN,
            fhBuf, rdErr, handled>>

\* the longest stream, in packets
MaxPackets == 2

RECURSIVE VarintValue(_)
\* the value of remaining-length bytes: sum of (byte_j mod 128) * 128^j
VarintValue(bs) ==
    IF bs = <<>> THEN 0 ELSE (Head(bs) % 128) + 128 * VarintValue(Tail(bs))

\* a packet is well formed when its length bytes are 1 to 4 bytes, all but
\* the last with bit 7 set
WellFormedLen(bs) ==
    /\ Len(bs) \in 1..4
    /\ \A j \in 1..Len(bs) : (bs[j] >= 128) <=> (j < Len(bs))

MkPacket(c, bs, ok) ==
    [ctl |-> c, len |-> bs, ok |-> ok,
     plen |-> IF WellFormedLen(bs) THEN VarintValue(bs) ELSE 0]

PacketSize(p) == 1 + Len(p.len) + p.plen

RECURSIVE Offset(_, _)
\* the wire offset of the first byte after the first k packets of s
Offset(s, k) == IF k = 0 THEN 0 ELSE Offset(s, k - 1) + PacketSize(s[k])

\* the packet of s that holds wire offset pos
PacketOf(s, pos) ==
    CHOOSE j \in 1..Len(s) : Offset(s, j - 1) <= pos /\ pos < Offset(s, j)

\* the byte of the wire at offset pos (payload bytes are not told apart)
ByteAt(s, pos) ==
    LET j == PacketOf(s, pos)
        rel == pos - Offset(s, j - 1)
    IN  IF rel = 0 THEN s[j].ctl
        ELSE IF rel <= Len(s[j].len) THEN s[j].len[rel]
        ELSE 0

\* ---- circ.Reader ------------------------------------------------------
\* cl.r.CapDelta(): the unread buffered bytes
CapDelta == rHead - rTail

\* cl.r.Read(n) returns a view of n bytes
CanRead(n) == CapDelta >= n

\* cl.r.Read(n) returns an error: the bytes are not there and the reader was
\* stopped; it blocks when neither holds
ReadFails(n) == ~CanRead(n) /\ rStopped

\* ---- packets --------------------------------------------------------
Pingreq == 12
Pingresp == 13
Disconnect == 14

\* fh.Decode(p[0]): the packet type is the high nibble
DecodeType(b) == b \div 16

\* the per-type decode of ReadPacket's switch: "" for no error
DecodePayload(type, ok) ==
    IF type \in {Pingreq, Pingresp, Disconnect} THEN ""
    ELSE IF type \in 1..11 THEN (IF ok THEN "" ELSE "decode")
    ELSE "No valid packet available"

RECURSIVE UvarintFrom(_, _, _, _)
\* encoding/binary.Uvarint: x and the shift s are carried along; a buffer
\* that ends before a byte < 0x80 yields 0
UvarintFrom(buf, j, x, mult) ==
    IF j > Len(buf) THEN 0
    ELSE IF buf[j] < 128 THEN x + buf[j] * mult
    ELSE UvarintFrom(buf, j + 1, x + (buf[j] % 128) * mult, mult * 128)

Uvarint(buf) == UvarintFrom(buf, 1, 0, 1)

\* ---- ReadFixedHeader --------------------------------------------------
\* ReadFixedHeader or Read returns the error e
RdReturn(e) ==
    /\ rdErr' = e
    /\ rdPc' = "returned"

\* p, err := cl.r.Read(1); err = fh.Decode(p[0]); buf, i := ..., 1; n := 2
FhReadType ==
    /\ rdPc = "fh_read1"
    /\ CanRead(1) \/ ReadFails(1)
    /\ IF CanRead(1)
       THEN /\ fhType' = DecodeType(ByteAt(rStream, rTail))
            /\ fhBuf' = <<>>
            /\ fhI' = 1
            /\ fhN' = 2
            /\ rdStart' = rTail
            /\ rdPc' = "fh_loop"
            /\ rdErr' = rdErr
       ELSE /\ RdReturn("EOF")
            /\ UNCHANGED <<fhType, fhBuf, fhI, fhN, rdStart>>
    /\ UNCHANGED <<rStream, rHead, rTail, fhRem, handled>>
    /\ UNCHANGED <<deadline, dlAt, done, rStopped, wStopped>>

\* if i == 4 { return packets.ErrOversizedLengthIndicator }
FhOversized(i) == i = 4

\* one pass of: for ; n < 6; n++ { p, err = cl.r.Read(n); buf = append(buf,
\* p[i]); if p[i] < 128 { break }; i++; if i == 4 { return ... } }
FhLoop ==
    /\ rdPc = "fh_loop"
    /\ CanRead(fhN) \/ ReadFails(fhN)
    /\ IF ~CanRead(fhN)
       THEN /\ RdReturn("EOF")
            /\ UNCHANGED <<fhBuf, fhI, fhN>>
       ELSE LET b == ByteAt(rStream, rTail + fhI) IN
            /\ fhBuf' = Append(fhBuf, b)
            /\ IF b < 128
               THEN /\ rdPc' = "fh_commit"
                    /\ UNCHANGED <<fhI, fhN, rdErr>>
               ELSE /\ fhI' = fhI + 1
                    /\ IF FhOversized(fhI + 1)
                       THEN /\ RdReturn("ErrOversizedLengthIndicator")
                            /\ fhN' = fhN
                       ELSE /\ fhN' = fhN + 1
                            /\ rdPc' = IF fhN + 1 < 6 THEN "fh_loop"
                                       ELSE "fh_commit"
                            /\ rdErr' = rdErr
    /\ UNCHANGED <<rStream, rHead, rTail, rdStart, fhType, fhRem, handled>>
    /\ UNCHANGED <<deadline, dlAt, done, rStopped, wStopped>>

\* cl.r.CommitTail(n)
FhCommitSize(n) == n

\* rem, _ := binary.Uvarint(buf); fh.Remaining = int(rem);
\* cl.r.CommitTail(n); return nil
FhCommit ==
    /\ rdPc = "fh_commit"
    /\ fhRem' = Uvarint(fhBuf)
    /\ rTail' = rTail + FhCommitSize(fhN)
    /\ rdPc' = "rp_start"
    /\ UNCHANGED <<rStream, rHead, rdStart, fhType, fhI, fhN, fhBuf, rdErr,
                   handled>>
    /\ UNCHANGED <<deadline, dlAt, done, rStopped, wStopped>>

ReadFixedHeader == FhReadType \/ FhLoop \/ FhCommit

\* ---- ReadPacket -------------------------------------------------------
\* whether the codec decodes the payload of the packet whose header began at
\* wire offset start
PayloadOk(start) ==
    \E j \in 1..Len(rStream) :
        Offset(rStream, j - 1) = start /\ rStream[j].ok

\* if pk.FixedHeader.Remaining == 0 { return }; p, err := cl.r.Read(
\* Remaining); switch pk.FixedHeader.Type {...}; cl.r.CommitTail(Remaining)
ReadPacket ==
    /\ rdPc = "rp_start"
    /\ fhRem = 0 \/ CanRead(fhRem) \/ ReadFails(fhRem)
    /\ IF fhRem = 0
       THEN /\ rdPc' = "rd_handle"
            /\ UNCHANGED <<rTail, rdErr>>
       ELSE IF ~CanRead(fhRem)
       THEN /\ RdReturn("EOF")
            /\ rTail' = rTail
       ELSE LET err == DecodePayload(fhType, PayloadOk(rdStart)) IN
            /\ rTail' = rTail + fhRem
            /\ IF err = ""
               THEN rdPc' = "rd_handle" /\ rdErr' = rdErr
               ELSE RdReturn(err)
    /\ UNCHANGED <<rStream, rHead, rdStart, fhType, fhRem, fhI, fhN, fhBuf,
                   handled>>
    /\ UNCHANGED <<deadline, dlAt, done, rStopped, wStopped>>

\* ---- Read ---------------------------------------------------------------
\* if atomic.LoadInt64(&cl.state.done) == 1 && cl.r.CapDelta() == 0 {
\* return nil }; cl.refreshDeadline(cl.keepalive); fh := new(FixedHeader)
ReadTop ==
    /\ rdPc = "rd_top"
    /\ IF done = 1 /\ CapDelta = 0
       THEN /\ RdReturn("nil")
            /\ UNCHANGED <<deadline, dlAt>>
       ELSE /\ refreshDeadline(keepalive)
            /\ rdPc' = "fh_read1"
            /\ rdErr' = rdErr
    /\ UNCHANGED <<rStream, rHead, rTail, rdStart, fhType, fhRem, fhI, fhN,
                   fhBuf, handled>>
    /\ UNCHANGED <<done, rStopped, wStopped>>

\* err = h(cl, pk); if err != nil { return err }
ReadHandle ==
    /\ rdPc = "rd_handle"
    /\ handled' = Append(handled, <<rdStart, fhType, fhRem>>)
    /\ \E herr \in BOOLEAN :
          IF herr THEN RdReturn("handler")
          ELSE rdPc' = "rd_top" /\ rdErr' = rdErr
    /\ UNCHANGED <<rStream, rHead, rTail, rdStart, fhType, fhRem, fhI, fhN,
                   fhBuf>>
    /\ UNCHANGED <<deadline, dlAt, done, rStopped, wStopped>>

\* ---- the other tasks, as the reading task sees them ----------------------
\* wire offsets at which the bytes buffered so far may end
FillPoints(s) ==
    {0} \cup UNION { { Offset(s, j - 1) + d : d \in 1..(1 + Len(s[j].len)) }
                     \cup { Offset(s, j) } : j \in 1..Len(s) }

\* cl.r.ReadFrom(cl.conn), the reader drainer: more bytes are buffered
ReadFrom ==
    /\ done = 0
    /\ \E h \in FillPoints(rStream) : h > rHead /\ rHead' = h
    /\ UNCHANGED <<rStream, rTail, rdPc, rdStart, fhType, fhRem, fhI, fhN,
                   fhBuf, rdErr, handled>>
    /\ UNCHANGED <<deadline, dlAt, done, rStopped, wStopped>>

\* Stop() run by another task, one step of its body at a time
\* cl.r.Stop()
EnvStopReader ==
    /\ ~rStopped
    /\ rStopped' = TRUE
    /\ UNCHANGED <<done, wStopped>>

\* cl.w.Stop()
EnvStopWriter ==
    /\ rStopped
    /\ ~wStopped
    /\ wStopped' = TRUE
    /\ UNCHANGED <<done, rStopped>>

\* atomic.StoreInt64(&cl.state.done, 1)
EnvStoreDone ==
    /\ wStopped
    /\ done = 0
    /\ done' = 1
    /\ UNCHANGED <<rStopped, wStopped>>

EnvStop == EnvStopReader \/ EnvStopWriter \/ EnvStoreDone

\* ---- streams ------------------------------------------------------------
RdInit(s, h, pc0) ==
    /\ rStream = s
    /\ rHead = h
    /\ rTail = 0
    /\ rdPc = pc0
    /\ rdStart = 0
    /\ fhType = 0
    /\ fhRem = 0
    /\ fhI = 0
    /\ fhN = 0
    /\ fhBuf = <<>>
    /\ rdErr = ""
    /\ handled = <<>>

\* control bytes: CONNECT, PUBLISH, PINGREQ
CtlBytes == {16, 48, 192}
\* length bytes with and without the continuation bit
LenConts == {128, 129, 255}
LenTerms == {0, 1, 127}

RECURSIVE Conts(_)
\* the sequences of k continuation bytes
Conts(k) ==
    IF k = 0 THEN {<<>>}
    ELSE {Append(bs, b) : bs \in Conts(k - 1), b \in LenConts}

\* remaining-length fields: k-1 continuation bytes and a terminator, for k
\* from 1 to 4, and four continuation bytes followed by any byte
LenFields ==
    UNION { {Append(bs, t) : bs \in Conts(k - 1), t \in LenTerms} : k \in 1..4 }
    \cup {Append(bs, b) : bs \in Conts(4), b \in LenConts \cup LenTerms}

\* one fixed header on the wire, any part of it buffered
FHInit ==
    \E c \in CtlBytes, bs \in LenFields :
        LET s == <<MkPacket(c, bs, TRUE)>> IN
        \E h \in 0..(1 + Len(bs)) : RdInit(s, h, "fh_read1")

\* the packets of the streams Read is run on
ReadPackets ==
    {MkPacket(48, bs, ok) :
        bs \in {<<2>>, <<128, 1>>, <<128, 128, 128, 1>>}, ok \in BOOLEAN}
    \cup {MkPacket(192, <<0>>, TRUE)}

RECURSIVE Streams(_)
Streams(n) ==
    IF n = 0 THEN {<<>>}
    ELSE LET shorter == Streams(n - 1) IN
         shorter \cup {Append(s, p) : s \in {t \in shorter : Len(t) = n - 1},
                                      p \in ReadPackets}

ReadInit == \E s \in Streams(MaxPackets) : RdInit(s, 0, "rd_top")

ReadNext ==
    \/ ReadTop
    \/ ReadFixedHeader
    \/ ReadPacket
    \/ ReadHandle
    \/ ReadFrom
    \/ EnvStop /\ UNCHANGED <<rdVars, deadline, dlAt>>

(***************************************************************************)
(* The write path: Client.WritePacket under the writer's mutex cl.w.Mu.    *)
(***************************************************************************)
VARIABLES
    wpPc,     \* position of every caller in WritePacket
    wpPk,     \* the packet every caller is writing
    wpBuf,    \* buf: the encoded frame of every caller
    wpPos,    \* how many bytes of buf cl.w.Write has pushed for the caller
    wpSlot,   \* the caller's entry in wLog
    wpRes,    \* what the caller's last WritePacket returned: [n, err]
    wpCalls,  \* the number of WritePacket calls made so far
    wMu,      \* cl.w.Mu: its holder, 0 when free
    wOut,     \* the bytes pushed into the writer, in the order pushed
    wLog      \* one entry for every acquisition of cl.w.Mu, in order:
              \* the caller, its frame, the bytes of it pushed so far

wrVars == <<wpPc, wpPk, wpBuf, wpPos, wpSlot, wpRes, wpCalls, wMu, wOut, wLog>>

\* concurrent callers of WritePacket, and the calls they make in all
NumWriters == 2
MaxWriteCalls == 3

WCallers == 1..NumWriters

Puback == 4

\* the packets the callers write: a PUBACK with a packet id, a PINGREQ, and
\* a packet of a type that is none of the fourteen
WritePackets ==
    {[type |-> Puback, id |-> 7], [type |-> Pingreq, id |-> 0],
     [type |-> 0, id |-> 0]}

\* the codec: the frame of a packet (PUBACK, PINGREQ, PUBLISH with its DUP
\* flag, PUBREL), <<>> when its type has no encoder
Encode(pk) ==
    IF pk.type = Puback THEN <<64, 2, pk.id \div 256, pk.id % 256>>
    ELSE IF pk.type = Pingreq THEN <<192, 0>>
    ELSE IF pk.type = 3
         THEN <<IF pk.dup THEN 56 ELSE 48, 2, pk.id \div 256, pk.id % 256>>
    ELSE IF pk.type = 6 THEN <<98, 2, pk.id \div 256, pk.id % 256>>
    ELSE <<>>

Encodes(pk) == pk.type \in 1..14

NoResult == [n |-> -1, err |-> ""]

\* a caller enters WritePacket(pk)
WpCall(c) ==
    /\ wpPc[c] = "idle"
    /\ wpCalls < MaxWriteCalls
    /\ \E pk \in WritePackets : wpPk' = [wpPk EXCEPT ![c] = pk]
    /\ wpCalls' = wpCalls + 1
    /\ wpRes' = [wpRes EXCEPT ![c] = NoResult]
    /\ wpPc' = [wpPc EXCEPT ![c] = "wp_check"]
    /\ UNCHANGED <<wpBuf, wpPos, wpSlot, wMu, wOut, wLog>>
    /\ UNCHANGED <<deadline, dlAt, done, rStopped, wStopped>>

\* a check that does not look at done
WpClosedNever(d) == FALSE

\* if atomic.LoadInt64(&cl.state.done) == 1
WpClosed(d) == d = 1

\* ... { return 0, ErrConnectionClosed }
WpCheck(c) ==
    /\ wpPc[c] = "wp_check"
    /\ IF WpClosed(done)
       THEN /\ wpRes' = [wpRes EXCEPT ![c] = [n |-> 0, err |-> "ErrConnectionClosed"]]
            /\ wpPc' = [wpPc EXCEPT ![c] = "idle"]
       ELSE /\ wpRes' = wpRes
            /\ wpPc' = [wpPc EXCEPT ![c] = "wp_lock"]
    /\ UNCHANGED <<wpPk, wpBuf, wpPos, wpSlot, wpCalls, wMu, wOut, wLog>>
    /\ UNCHANGED <<deadline, dlAt, done, rStopped, wStopped>>

\* a lock that never waits
WpMuFreeAlways(m) == TRUE

\* cl.w.Mu.Lock() waits for the mutex to be free
WpMuFree(m) == m = 0

\* cl.w.Mu.Lock(); defer cl.w.Mu.Unlock()
WpLock(c) ==
    /\ wpPc[c] = "wp_lock"
    /\ WpMuFree(wMu)
    /\ wMu' = c
    /\ wLog' = Append(wLog, [by |-> c, frame |-> <<>>, n |-> 0])
    /\ wpSlot' = [wpSlot EXCEPT ![c] = Len(wLog) + 1]
    /\ wpPc' = [wpPc EXCEPT ![c] = "wp_encode"]
    /\ UNCHANGED <<wpPk, wpBuf, wpPos, wpRes, wpCalls, wOut>>
    /\ UNCHANGED <<deadline, dlAt, done, rStopped, wStopped>>

\* buf := new(bytes.Buffer); switch pk.FixedHeader.Type { ... };
\* if err != nil { return }
WpEncode(c) ==
    /\ wpPc[c] = "wp_encode"
    /\ IF Encodes(wpPk[c])
       THEN /\ wpBuf' = [wpBuf EXCEPT ![c] = Encode(wpPk[c])]
            /\ wpPos' = [wpPos EXCEPT ![c] = 0]
            /\ wLog' = [wLog EXCEPT ![wpSlot[c]].frame = Encode(wpPk[c])]
            /\ wpPc' = [wpPc EXCEPT ![c] = "wp_write"]
            /\ UNCHANGED <<wpRes, wMu>>
       ELSE /\ wpRes' = [wpRes EXCEPT ![c] =
                           [n |-> 0, err |-> "No valid packet available"]]
            /\ wMu' = 0
            /\ wpPc' = [wpPc EXCEPT ![c] = "idle"]
            /\ UNCHANGED <<wpBuf, wpPos, wLog>>
    /\ UNCHANGED <<wpPk, wpSlot, wpCalls, wOut>>
    /\ UNCHANGED <<deadline, dlAt, done, rStopped, wStopped>>

\* n, err = cl.w.Write(buf.Bytes()); if err != nil { return }: a stopped
\* writer takes none of the bytes
WpWriteFails(c) ==
    /\ wpPc[c] = "wp_write"
    /\ wpPos[c] = 0
    /\ wStopped
    /\ wpRes' = [wpRes EXCEPT ![c] = [n |-> 0, err |-> "EOF"]]
    /\ wMu' = 0
    /\ wpPc' = [wpPc EXCEPT ![c] = "idle"]
    /\ UNCHANGED <<wpPk, wpBuf, wpPos, wpSlot, wpCalls, wOut, wLog>>
    /\ UNCHANGED <<deadline, dlAt, done, rStopped, wStopped>>

\* cl.w.Write(buf.Bytes()): the next byte of the frame goes into the writer
WpWrite(c) ==
    /\ wpPc[c] = "wp_write"
    /\ wpPos[c] < Len(wpBuf[c])
    /\ wOut' = Append(wOut, wpBuf[c][wpPos[c] + 1])
    /\ wpPos' = [wpPos EXCEPT ![c] = @ + 1]
    /\ wLog' = [wLog EXCEPT ![wpSlot[c]].n = @ + 1]
    /\ wpPc' = [wpPc EXCEPT ![c] = IF wpPos[c] + 1 = Len(wpBuf[c])
                                   THEN "wp_refresh" ELSE "wp_write"]
    /\ UNCHANGED <<wpPk, wpBuf, wpSlot, wpRes, wpCalls, wMu>>
    /\ UNCHANGED <<deadline, dlAt, done, rStopped, wStopped>>

\* cl.refreshDeadline(cl.keepalive); return (and the deferred Unlock)
WpRefresh(c) ==
    /\ wpPc[c] = "wp_refresh"
    /\ refreshDeadline(keepalive)
    /\ wpRes' = [wpRes EXCEPT ![c] = [n |-> Len(wpBuf[c]), err |-> "nil"]]
    /\ wMu' = 0
    /\ wpPc' = [wpPc EXCEPT ![c] = "idle"]
    /\ UNCHANGED <<wpPk, wpBuf, wpPos, wpSlot, wpCalls, wOut, wLog>>
    /\ UNCHANGED <<done, rStopped, wStopped>>

WritePacket(c) ==
    \/ WpCall(c) \/ WpCheck(c) \/ WpLock(c) \/ WpEncode(c)
    \/ WpWriteFails(c) \/ WpWrite(c) \/ WpRefresh(c)

WrInit ==
    /\ wpPc = [c \in WCallers |-> "idle"]
    /\ wpPk = [c \in WCallers |-> [type |-> 0, id |-> 0]]
    /\ wpBuf = [c \in WCallers |-> <<>>]
    /\ wpPos = [c \in WCallers |-> 0]
    /\ wpSlot = [c \in WCallers |-> 0]
    /\ wpRes = [c \in WCallers |-> NoResult]
    /\ wpCalls = 0
    /\ wMu = 0
    /\ wOut = <<>>
    /\ wLog = <<>>

WriteNext ==
    \/ \E c \in WCallers : WritePacket(c)
    \/ EnvStop /\ UNCHANGED <<wrVars, deadline, dlAt>>

(***************************************************************************)
(* The registry of sessions: Clients.Add, Clients.Delete,                  *)
(* Clients.GetByListener.  A session of the registry is known by a number; *)
(* its client id and its listener are fixed when it is identified.         *)
(***************************************************************************)
VARIABLES
    regInternal,   \* cl.internal: client id -> session, NoSession when absent
    regReaders,    \* the RWMutex of the registry: the number of read locks held
    regDone,       \* state.done of every session
    gblPc,         \* position of the caller of GetByListener
    gblL,          \* GetByListener: the argument id
    gblCap,        \* GetByListener: cl.Len(), the capacity of the result
    gblTodo,       \* GetByListener: the keys the range has not produced yet
    gblRes,        \* GetByListener: clients
    gblExam,       \* the done flag of every session as the range loaded it
    gblRegAtLock,  \* cl.internal when the read lock was taken
    gblDoneAtCall  \* the sessions whose done flag was 1 when the call began

regVars == <<regInternal, regReaders, regDone, gblPc, gblL, gblCap, gblTodo,
             gblRes, gblExam, gblRegAtLock, gblDoneAtCall>>

\* the sessions the broker has created
NumSessions == 3

Sessions == 1..NumSessions
NoSession == 0

\* val.ID and val.Listener: sessions 1 and 3 are the same client
ClientIds == {0, 1}
Listeners == {0, 1}
IdOf(s) == s % 2
ListenerOf(s) == (s \div 2) % 2

NotExamined == -1

\* the sessions registered in m
Registered(m) == {m[k] : k \in {j \in DOMAIN m : m[j] # NoSession}}

\* Add: cl.Lock(); cl.internal[val.ID] = val; cl.Unlock()
RegAdd(s) ==
    /\ regReaders = 0
    /\ regInternal[IdOf(s)] # s
    /\ regInternal' = [regInternal EXCEPT ![IdOf(s)] = s]
    /\ UNCHANGED <<regReaders, regDone, gblPc, gblL, gblCap, gblTodo, gblRes,
                   gblExam, gblRegAtLock, gblDoneAtCall>>

\* Delete: cl.Lock(); delete(cl.internal, id); cl.Unlock()
RegDelete(id) ==
    /\ regReaders = 0
    /\ regInternal[id] # NoSession
    /\ regInternal' = [regInternal EXCEPT ![id] = NoSession]
    /\ UNCHANGED <<regReaders, regDone, gblPc, gblL, gblCap, gblTodo, gblRes,
                   gblExam, gblRegAtLock, gblDoneAtCall>>

\* Stop() of session s reaches atomic.StoreInt64(&cl.state.done, 1)
RegStop(s) ==
    /\ regDone[s] = 0
    /\ regDone' = [regDone EXCEPT ![s] = 1]
    /\ UNCHANGED <<regInternal, regReaders, gblPc, gblL, gblCap, gblTodo,
                   gblRes, gblExam, gblRegAtLock, gblDoneAtCall>>

\* a caller enters GetByListener(id)
GblCall(l) ==
    /\ gblPc \in {"idle", "returned"}
    /\ gblL' = l
    /\ gblCap' = 0
    /\ gblTodo' = {}
    /\ gblRes' = <<>>
    /\ gblExam' = [s \in Sessions |-> NotExamined]
    /\ gblRegAtLock' = [k \in ClientIds |-> NoSession]
    /\ gblDoneAtCall' = {s \in Sessions : regDone[s] = 1}
    /\ gblPc' = "len"
    /\ UNCHANGED <<regInternal, regReaders, regDone>>

\* clients := make([]*Client, 0, cl.Len())
GblLen ==
    /\ gblPc = "len"
    /\ gblCap' = Cardinality(Registered(regInternal))
    /\ gblPc' = "rlock"
    /\ UNCHANGED <<regInternal, regReaders, regDone, gblL, gblTodo, gblRes,
                   gblExam, gblRegAtLock, gblDoneAtCall>>

\* cl.RLock(); for _, v := range cl.internal {
GblRLock ==
    /\ gblPc = "rlock"
    /\ regReaders' = regReaders + 1
    /\ gblTodo' = {k \in ClientIds : regInternal[k] # NoSession}
    /\ gblRegAtLock' = regInternal
    /\ gblPc' = "range"
    /\ UNCHANGED <<regInternal, regDone, gblL, gblCap, gblRes, gblExam,
                   gblDoneAtCall>>

\* a filter that lets the sessions that are done through
GblLiveAlways(d) == TRUE

\* atomic.LoadInt64(&v.state.done) == 0
GblLive(d) == d = 0

\* if v.Listener == id && atomic.LoadInt64(&v.state.done) == 0 {
\* clients = append(clients, v) }, for the next key of the range
GblVisit ==
    /\ gblPc = "range"
    /\ \E k \in gblTodo :
          LET v == regInternal[k] IN
          /\ gblTodo' = gblTodo \ {k}
          /\ gblExam' = [gblExam EXCEPT ![v] = regDone[v]]
          /\ gblRes' = IF ListenerOf(v) = gblL /\ GblLive(regDone[v])
                       THEN Append(gblRes, v) ELSE gblRes
    /\ UNCHANGED <<regInternal, regReaders, regDone, gblPc, gblL, gblCap,
                   gblRegAtLock, gblDoneAtCall>>

\* } cl.RUnlock(); return clients
GblRUnlock ==
    /\ gblPc = "range"
    /\ gblTodo = {}
    /\ regReaders' = regReaders - 1
    /\ gblPc' = "returned"
    /\ UNCHANGED <<regInternal, regDone, gblL, gblCap, gblTodo, gblRes,
                   gblExam, gblRegAtLock, gblDoneAtCall>>

GetByListener ==
    \/ \E l \in Listeners : GblCall(l)
    \/ GblLen \/ GblRLock \/ GblVisit \/ GblRUnlock

\* New(): an empty registry; no session is done
RegInit ==
    /\ regInternal = [k \in ClientIds |-> NoSession]
    /\ regReaders = 0
    /\ regDone = [s \in Sessions |-> 0]
    /\ gblPc = "idle"
    /\ gblL = 0
    /\ gblCap = 0
    /\ gblTodo = {}
    /\ gblRes = <<>>
    /\ gblExam = [s \in Sessions |-> NotExamined]
    /\ gblRegAtLock = [k \in ClientIds |-> NoSession]
    /\ gblDoneAtCall = {}

RegNext ==
    \/ \E s \in Sessions : RegAdd(s)
    \/ \E id \in ClientIds : RegDelete(id)
    \/ \E s \in Sessions : RegStop(s)
    \/ GetByListener

(***************************************************************************)
(* The in-flight table and the resend pass: InFlight.Set, InFlight.Delete, *)
(* InFlight.Len, InFlight.GetAll, Client.ResendInflight.                   *)
(***************************************************************************)
VARIABLES
    ifTable,    \* cl.InFlight.internal: packet id -> record, NoRecord if absent
    ifCrashed,  \* the runtime stopped the process: "concurrent map iteration
                \* and map write"
    rsPc,       \* position of the task that runs ResendInflight
    rsForce,    \* ResendInflight: force
    rsNt,       \* ResendInflight: nt
    rsKey,      \* ResendInflight: the key the range produced last
    rsTk,       \* ResendInflight: tk, a copy of the record of that key
    rsVisited,  \* the keys the range has produced in this pass
    rsFresh,    \* the keys other tasks inserted while the range was running
    rsRet,      \* what the last pass returned, "" while it runs
    rsStart,    \* the table when the pass began
    rsSnap,     \* the table when GetAll returned
    rsSeen,     \* for every key the range produced, the record it produced
    rsWrote,    \* the keys whose packet the pass handed to WritePacket
    rsPasses,   \* the number of passes begun so far
    rsAcked     \* the keys another task deleted during the pass and that
                \* no task has set since

ifVars == <<ifTable, ifCrashed, rsPc, rsForce, rsNt, rsKey, rsTk, rsVisited,
            rsFresh, rsRet, rsStart, rsSnap, rsSeen, rsWrote, rsPasses,
            rsAcked>>

\* the packet ids that are ever in flight
NumInflight == 2

\* the resend passes of a run
MaxPasses == 1

InflightIds == 1..NumInflight

resendBackoff == <<0, 1, 2, 10, 60, 120, 600, 3600, 21600>>
maxResends == 6

Publish == 3
Pubrel == 6

\* the kind of packet in flight under an id: a PUBLISH under the odd ids, a
\* PUBREL under the even ones
InflightType(id) == IF id % 2 = 1 THEN Publish ELSE Pubrel

\* InFlightMessage{Packet, Sent, resends}
MkInflight(id, sent, resends, dup) ==
    [pk |-> [type |-> InflightType(id), id |-> id, dup |-> dup],
     sent |-> sent, resends |-> resends]

NoRecord == [pk |-> [type |-> 0, id |-> 0, dup |-> FALSE],
             sent |-> 0, resends |-> -1]

\* the keys of the map m
Keys(m) == {k \in DOMAIN m : m[k] # NoRecord}

\* the range is running over the map GetAll returned
InRange == rsPc \in {"range", "visit", "write", "writing"}

\* ---- InFlight, as the other tasks of the broker use it ------------------
\* Delete(key), on an acknowledgement: i.Lock(); delete(...); i.Unlock()
\* racing is TRUE when the runtime finds the write under the iteration
AckDelete(id, racing) ==
    /\ ~ifCrashed
    /\ ifTable[id] # NoRecord
    /\ racing => InRange
    /\ ifCrashed' = racing
    /\ ifTable' = [ifTable EXCEPT ![id] = NoRecord]
    /\ rsFresh' = rsFresh \ {id}
    /\ rsAcked' = IF rsPc \in {"idle", "returned"} THEN rsAcked
                  ELSE rsAcked \cup {id}
    /\ UNCHANGED <<rsPc, rsForce, rsNt, rsKey, rsTk, rsVisited, rsRet,
                   rsStart, rsSnap, rsSeen, rsWrote, rsPasses>>

\* Set(key, in), when the broker sends a packet that needs an acknowledgement
BrokerSet(id, racing) ==
    /\ ~ifCrashed
    /\ ifTable[id] = NoRecord
    /\ racing => InRange
    /\ ifCrashed' = racing
    /\ ifTable' = [ifTable EXCEPT ![id] = MkInflight(id, now, 0, FALSE)]
    /\ rsFresh' = IF InRange THEN rsFresh \cup {id} ELSE rsFresh
    /\ rsAcked' = rsAcked \ {id}
    /\ UNCHANGED <<rsPc, rsForce, rsNt, rsKey, rsTk, rsVisited, rsRet,
                   rsStart, rsSnap, rsSeen, rsWrote, rsPasses>>

\* ---- ResendInflight ------------------------------------------------------
RsReturn(e) ==
    /\ rsRet' = e
    /\ rsPc' = "returned"

\* a task enters ResendInflight(force)
RsCall(force) ==
    /\ ~ifCrashed
    /\ rsPc \in {"idle", "returned"}
    /\ rsForce' = force
    /\ rsStart' = ifTable
    /\ rsSnap' = [k \in InflightIds |-> NoRecord]
    /\ rsVisited' = {}
    /\ rsFresh' = {}
    /\ rsSeen' = [k \in InflightIds |-> NoRecord]
    /\ rsWrote' = {}
    /\ rsRet' = ""
    /\ rsPasses < MaxPasses
    /\ rsPasses' = rsPasses + 1
    /\ rsAcked' = {}
    /\ rsPc' = "len"
    /\ UNCHANGED <<ifTable, ifCrashed, rsNt, rsKey, rsTk>>

\* if cl.InFlight.Len() == 0 { return nil }; nt := time.Now().Unix()
RsLen ==
    /\ ~ifCrashed
    /\ rsPc = "len"
    /\ IF Keys(ifTable) = {}
       THEN RsReturn("nil") /\ rsNt' = rsNt
       ELSE rsPc' = "getall" /\ rsNt' = now /\ rsRet' = rsRet
    /\ UNCHANGED <<ifTable, ifCrashed, rsForce, rsKey, rsTk, rsVisited,
                   rsFresh, rsStart, rsSnap, rsSeen, rsWrote, rsPasses, rsAcked>>

\* cl.InFlight.GetAll(): i.RLock(); defer i.RUnlock(); return i.internal -
\* the map itself, not a copy of it
RsGetAll ==
    /\ ~ifCrashed
    /\ rsPc = "getall"
    /\ rsSnap' = ifTable
    /\ rsPc' = "range"
    /\ UNCHANGED <<ifTable, ifCrashed, rsForce, rsNt, rsKey, rsTk, rsVisited,
                   rsFresh, rsRet, rsStart, rsSeen, rsWrote, rsPasses, rsAcked>>

\* for _, tk := range ...: the range produces a key that is in the map now
\* and that it has not produced yet, in no fixed order; a key inserted while
\* the range runs is produced or not; tk is a copy of the record
RsRange ==
    /\ ~ifCrashed
    /\ rsPc = "range"
    /\ \E k \in Keys(ifTable) \ rsVisited :
          /\ rsKey' = k
          /\ rsTk' = ifTable[k]
          /\ rsVisited' = rsVisited \cup {k}
          /\ rsSeen' = [rsSeen EXCEPT ![k] = ifTable[k]]
    /\ rsPc' = "visit"
    /\ UNCHANGED <<ifTable, ifCrashed, rsForce, rsNt, rsFresh, rsRet,
                   rsStart, rsSnap, rsWrote, rsPasses, rsAcked>>

\* the range is over; return nil
RsRangeEnd ==
    /\ ~ifCrashed
    /\ rsPc = "range"
    /\ (Keys(ifTable) \ rsVisited) \subseteq rsFresh
    /\ RsReturn("nil")
    /\ UNCHANGED <<ifTable, ifCrashed, rsForce, rsNt, rsKey, rsTk, rsVisited,
                   rsFresh, rsStart, rsSnap, rsSeen, rsWrote, rsPasses, rsAcked>>

\* a threshold that is one resend late
RsDropAbove(r) == r > maxResends

\* if tk.resends >= maxResends
RsDropAt(r) == r >= maxResends

\* a backoff test that never holds a record back
RsTooSoonNever(force, nt, sent, r) == FALSE

\* if !force && (nt-tk.Sent < resendBackoff[tk.resends] ||
\* len(resendBackoff) < tk.resends)
RsTooSoon(force, nt, sent, r) ==
    ~force /\ (nt - sent < resendBackoff[r + 1] \/ Len(resendBackoff) < r)

\* { cl.InFlight.Delete(tk.Packet.PacketID); continue }
RsDrop ==
    /\ ~ifCrashed
    /\ rsPc = "visit"
    /\ RsDropAt(rsTk.resends)
    /\ ifTable' = [ifTable EXCEPT ![rsTk.pk.id] = NoRecord]
    /\ rsPc' = "range"
    /\ UNCHANGED <<ifCrashed, rsForce, rsNt, rsKey, rsTk, rsVisited, rsFresh,
                   rsRet, rsStart, rsSnap, rsSeen, rsWrote, rsPasses, rsAcked>>

\* { continue }
RsSkip ==
    /\ ~ifCrashed
    /\ rsPc = "visit"
    /\ ~RsDropAt(rsTk.resends)
    /\ RsTooSoon(rsForce, rsNt, rsTk.sent, rsTk.resends)
    /\ rsPc' = "range"
    /\ UNCHANGED <<ifTable, ifCrashed, rsForce, rsNt, rsKey, rsTk, rsVisited,
                   rsFresh, rsRet, rsStart, rsSnap, rsSeen, rsWrote, rsPasses, rsAcked>>

\* tk after: if Type == packets.Publish { Dup = true }; tk.resends++;
\* tk.Sent = nt
Resent(tk, nt) ==
    [pk |-> [tk.pk EXCEPT !.dup = (tk.pk.type = Publish) \/ @],
     sent |-> nt, resends |-> tk.resends + 1]

\* ...; cl.InFlight.Set(tk.Packet.PacketID, tk)
RsSet ==
    /\ ~ifCrashed
    /\ rsPc = "visit"
    /\ ~RsDropAt(rsTk.resends)
    /\ ~RsTooSoon(rsForce, rsNt, rsTk.sent, rsTk.resends)
    /\ rsTk' = Resent(rsTk, rsNt)
    /\ ifTable' = [ifTable EXCEPT ![rsTk.pk.id] = rsTk']
    /\ rsPc' = "write"
    /\ UNCHANGED <<ifCrashed, rsForce, rsNt, rsKey, rsVisited, rsFresh, rsRet,
                   rsStart, rsSnap, rsSeen, rsWrote, rsPasses, rsAcked>>

\* the caller of WritePacket that is the resend pass
RsWriter == 1

\* _, err := cl.WritePacket(tk.Packet): the pass enters WritePacket
RsWritePacket ==
    /\ ~ifCrashed
    /\ rsPc = "write"
    /\ wpPc[RsWriter] = "idle"
    /\ wpPk' = [wpPk EXCEPT ![RsWriter] = rsTk.pk]
    /\ wpRes' = [wpRes EXCEPT ![RsWriter] = NoResult]
    /\ wpPc' = [wpPc EXCEPT ![RsWriter] = "wp_check"]
    /\ rsWrote' = rsWrote \cup {rsTk.pk.id}
    /\ rsPc' = "writing"
    /\ UNCHANGED <<wpBuf, wpPos, wpSlot, wpCalls, wMu, wOut, wLog>>
    /\ UNCHANGED <<ifTable, ifCrashed, rsForce, rsNt, rsKey, rsTk, rsVisited,
                   rsFresh, rsRet, rsStart, rsSnap, rsSeen, rsPasses, rsAcked>>

\* an error test that lets every error pass
RsWriteFailedNever(err) == FALSE

\* if err != nil
RsWriteFailed(err) == err # "nil"

\* WritePacket has returned: if err != nil { return err }
RsWritten ==
    /\ ~ifCrashed
    /\ rsPc = "writing"
    /\ wpPc[RsWriter] = "idle"
    /\ IF RsWriteFailed(wpRes[RsWriter].err)
       THEN RsReturn(wpRes[RsWriter].err)
       ELSE rsPc' = "range" /\ rsRet' = rsRet
    /\ UNCHANGED <<ifTable, ifCrashed, rsForce, rsNt, rsKey, rsTk, rsVisited,
                   rsFresh, rsStart, rsSnap, rsSeen, rsWrote, rsPasses, rsAcked>>

\* the steps of the pass that do not touch the write path
RsSteps ==
    \/ \E force \in BOOLEAN : RsCall(force)
    \/ RsLen \/ RsGetAll \/ RsRange \/ RsRangeEnd
    \/ RsDrop \/ RsSkip \/ RsSet
    \/ RsWritten

\* the steps of WritePacket, for the pass
RsWriteSteps ==
    \/ WpCheck(RsWriter) \/ WpLock(RsWriter) \/ WpEncode(RsWriter)
    \/ WpWriteFails(RsWriter) \/ WpWrite(RsWriter) \/ WpRefresh(RsWriter)

\* the clock readings of the model
RsNows == <<0, 1>>

\* time passes, to the next reading; a pass is short against the second
\* the clock counts in, so time passes between the passes
RsAdvance ==
    /\ rsPc \in {"idle", "returned"}
    /\ \E j \in 1..(Len(RsNows) - 1) : now = RsNows[j] /\ now' = RsNows[j + 1]
    /\ UNCHANGED <<keepalive, connPresent, deadline, dlAt, identified>>

\* the resend counts of the records of the first table
InitResends == {0, 1, maxResends - 1, maxResends}

\* records a table can hold at time 0: sent then and resent, by forced
\* passes, a number of times
InflightRecords(id) ==
    {NoRecord} \cup
    {MkInflight(id, 0, r, r > 0 /\ InflightType(id) = Publish) : r \in InitResends}

IfInit(t) ==
    /\ ifTable = t
    /\ ifCrashed = FALSE
    /\ rsPc = "idle"
    /\ rsForce = FALSE
    /\ rsNt = 0
    /\ rsKey = 0
    /\ rsTk = NoRecord
    /\ rsVisited = {}
    /\ rsFresh = {}
    /\ rsRet = ""
    /\ rsStart = t
    /\ rsSnap = [k \in InflightIds |-> NoRecord]
    /\ rsSeen = [k \in InflightIds |-> NoRecord]
    /\ rsWrote = {}
    /\ rsPasses = 0
    /\ rsAcked = {}

\* NewClient: InFlight{internal: make(map[uint16]InFlightMessage)}
IfEmpty == IfInit([k \in InflightIds |-> NoRecord])

\* a pass, alone with the table
ResendInit ==
    \E t \in [InflightIds -> UNION {InflightRecords(id) : id \in InflightIds}] :
        /\ \A id \in InflightIds : t[id] \in InflightRecords(id)
        /\ IfInit(t)

ResendNext ==
    \/ RsSteps /\ UNCHANGED <<wrVars, dlVars, done, rStopped, wStopped>>
    \/ RsWritePacket /\ UNCHANGED <<dlVars, done, rStopped, wStopped>>
    \/ RsWriteSteps /\ UNCHANGED <<ifVars, keepalive, connPresent, now, identified>>
    \/ EnvStop /\ UNCHANGED <<ifVars, wrVars, dlVars>>
    \/ RsAdvance /\ UNCHANGED <<ifVars, wrVars, done, rStopped, wStopped>>

\* a pass with the broker's other tasks at the table: acknowledgements
\* delete records and new sends set records while the pass runs; a write to
\* the map under the range is a data race, which the runtime may find
ResendConcInit == ResendInit

ResendConcNext ==
    \/ RsSteps /\ UNCHANGED <<wrVars, dlVars, done, rStopped, wStopped>>
    \/ RsWritePacket /\ UNCHANGED <<dlVars, done, rStopped, wStopped>>
    \/ RsWriteSteps /\ UNCHANGED <<ifVars, keepalive, connPresent, now, identified>>
    \/ \E id \in InflightIds, racing \in BOOLEAN :
          AckDelete(id, racing) /\ UNCHANGED <<wrVars, dlVars, done, rStopped, wStopped>>
    \/ \E id \in InflightIds, racing \in BOOLEAN :
          BrokerSet(id, racing) /\ UNCHANGED <<wrVars, dlVars, done, rStopped, wStopped>>

(***************************************************************************)
(* A task of the broker that watches a session shut down: it loads done    *)
(* and asks the reader for its unread bytes, as Client.Read does at the    *)
(* top of its loop.                                                        *)
(***************************************************************************)
VARIABLES
    obsSeen   \* the number of handler invocations there had been when the
              \* observer saw done = 1 and CapDelta() = 0; NotSeen before

obsVars == <<obsSeen>>

NotSeen == -1

\* atomic.LoadInt64(&cl.state.done) == 1 && cl.r.CapDelta() == 0
Observe ==
    /\ obsSeen = NotSeen
    /\ done = 1 /\ CapDelta = 0
    /\ obsSeen' = Len(handled)

ObsInit == obsSeen = NotSeen

\* Read, the reader drainer and Stop(), with the observer
ObsNext ==
    \/ ReadNext /\ UNCHANGED obsVars
    \/ Observe /\ UNCHANGED <<rdVars, deadline, dlAt, done, rStopped, wStopped>>

(***************************************************************************)
(* The writer drainer and the frames WritePacket hands to the writer,      *)
(* through the shutdown of the session.                                    *)
(***************************************************************************)
VARIABLES
    wSent   \* how many of the bytes in the writer cl.w.WriteTo has pushed to
            \* the connection

flVars == <<wSent>>

\* the task that runs Read and, from its handler, WritePacket
HandlerTask == 1

\* the task of the broker that calls Stop() to close the session
BrokerTask == <<"E", 1>>

\* cl.w.WriteTo(cl.conn) pushes the bytes buffered so far to the connection
WriteTo ==
    /\ ~panicked
    /\ pc[WriterTask] = "drain"
    /\ wSent < Len(wOut)
    /\ wSent' = Len(wOut)

\* cl.w.WriteTo(cl.conn) returns because the writer was asked to stop; it
\* leaves with nothing buffered
WriteToStopped ==
    /\ wSent = Len(wOut)
    /\ DrainStopped(WriterTask)

FlInit == wSent = 0

\* the session from Start() to the end of Stop(), on a connection that takes
\* every byte: the writer drainer leaves only when it is stopped; the reader
\* drainer leaves when it is stopped or when the client hangs up; one task
\* of the broker calls Stop(); the handler task writes packets once Start()
\* has returned
FlushNext ==
    \/ Start /\ UNCHANGED <<wrVars, flVars, deadline, dlAt>>
    \/ \E d \in Drainers :
          (DrainerStarted(d) \/ DrainerEnded(d) \/ DrainerCallsStop(d))
              /\ UNCHANGED <<wrVars, flVars, deadline, dlAt>>
    \/ (DrainError(ReaderTask) \/ DrainStopped(ReaderTask))
          /\ UNCHANGED <<wrVars, flVars, deadline, dlAt>>
    \/ WriteToStopped /\ UNCHANGED <<wrVars, flVars, deadline, dlAt>>
    \/ WriteTo /\ UNCHANGED <<lifeVars, wrVars, deadline, dlAt>>
    \/ ExternalCallsStop(BrokerTask) /\ UNCHANGED <<wrVars, flVars, deadline, dlAt>>
    \/ \E p \in Callers : Stop(p) /\ UNCHANGED <<wrVars, flVars, deadline, dlAt>>
    \/ pc[Starter] = "returned" /\ ~panicked /\ WritePacket(HandlerTask)
          /\ UNCHANGED <<pc, started, endedW, endedR, onceDone, onceM, panicked,
                         bodyRuns, flVars>>

(***************************************************************************)
(* The specifications.                                                     *)
(***************************************************************************)
\* the variables of the registry, of the in-flight table, of the observer
\* and of the writer drainer
moreVars == <<regVars, ifVars, obsVars, flVars>>

MoreInit == RegInit /\ IfEmpty /\ ObsInit /\ FlInit

vars == <<lifeVars, dlVars, pidVars, rdVars, wrVars, moreVars>>

\* everything of the lifecycle but done and the two stop requests
lifeCore == <<pc, started, endedW, endedR, onceDone, onceM, panicked, bodyRuns>>

\* the lifecycle
Init ==
    /\ clientState
    /\ NewClient(TRUE, 0) /\ now = 0
    /\ PidInit(0)
    /\ RdInit(<<>>, 0, "rd_top")
    /\ WrInit
    /\ MoreInit

Next == LifeNext /\ UNCHANGED <<dlVars, pidVars, rdVars, wrVars, moreVars>>

Spec == Init /\ [][Next]_vars

\* the fairness the Go scheduler gives: every task that can take a step
\* eventually takes one; a drain call is only known to return once its half
\* of the channel has been asked to stop (DrainError is left without fairness)
LifeFairness ==
    /\ WF_lifeVars(Start)
    /\ \A d \in Drainers :
          /\ WF_lifeVars(DrainerStarted(d))
          /\ WF_lifeVars(DrainStopped(d))
          /\ WF_lifeVars(DrainerEnded(d))
          /\ WF_lifeVars(DrainerCallsStop(d))
    /\ \A p \in Callers : WF_lifeVars(Stop(p))

SpecFair == Init /\ [][Next]_vars /\ LifeFairness

\* the keepalive deadline
InitDeadline ==
    /\ clientState
    /\ DeadlineInit
    /\ PidInit(0)
    /\ RdInit(<<>>, 0, "rd_top")
    /\ WrInit
    /\ MoreInit

NextDeadline == DeadlineNext /\ UNCHANGED <<lifeVars, pidVars, rdVars, wrVars, moreVars>>

SpecDeadline == InitDeadline /\ [][NextDeadline]_vars

\* the packet id counter, one caller
InitPidSeq ==
    /\ clientState
    /\ NewClient(TRUE, 0) /\ now = 0
    /\ PidSeqInit
    /\ RdInit(<<>>, 0, "rd_top")
    /\ WrInit
    /\ MoreInit

NextPidSeq == PidSeqNext /\ UNCHANGED <<lifeVars, dlVars, rdVars, wrVars, moreVars>>

SpecPidSeq == InitPidSeq /\ [][NextPidSeq]_vars

\* the packet id counter, concurrent callers
InitPid ==
    /\ clientState
    /\ NewClient(TRUE, 0) /\ now = 0
    /\ PidConcInit
    /\ RdInit(<<>>, 0, "rd_top")
    /\ WrInit
    /\ MoreInit

NextPid == PidConcNext /\ UNCHANGED <<lifeVars, dlVars, rdVars, wrVars, moreVars>>

SpecPid == InitPid /\ [][NextPid]_vars

\* ReadFixedHeader on one fixed header
InitFH ==
    /\ clientState
    /\ NewClient(TRUE, 0) /\ now = 0
    /\ PidInit(0)
    /\ FHInit
    /\ WrInit
    /\ MoreInit

NextFH ==
    (ReadFixedHeader \/ (EnvStopReader /\ UNCHANGED <<rdVars, deadline, dlAt>>))
        /\ UNCHANGED <<lifeCore, keepalive, connPresent, now, identified, pidVars, wrVars, moreVars>>

SpecFH == InitFH /\ [][NextFH]_vars

\* Read on a stream of packets
InitRead ==
    /\ clientState
    /\ NewClient(TRUE, 0) /\ now = 0
    /\ PidInit(0)
    /\ ReadInit
    /\ WrInit
    /\ MoreInit

NextRead ==
    ReadNext /\ UNCHANGED <<lifeCore, keepalive, connPresent, now, identified, pidVars, wrVars, moreVars>>

SpecRead == InitRead /\ [][NextRead]_vars

\* WritePacket by concurrent callers
InitWrite ==
    /\ clientState
    /\ NewClient(TRUE, 0) /\ now = MaxNow
    /\ PidInit(0)
    /\ RdInit(<<>>, 0, "rd_top")
    /\ WrInit
    /\ MoreInit

NextWrite ==
    WriteNext /\ UNCHANGED <<lifeCore, keepalive, connPresent, now, identified, pidVars, rdVars, moreVars>>

SpecWrite == InitWrite /\ [][NextWrite]_vars


\* the registry
InitRegistry ==
    /\ clientState
    /\ NewClient(TRUE, 0) /\ now = 0
    /\ PidInit(0)
    /\ RdInit(<<>>, 0, "rd_top")
    /\ WrInit
    /\ RegInit
    /\ IfEmpty
    /\ ObsInit
    /\ FlInit

NextRegistry ==
    RegNext /\ UNCHANGED <<lifeVars, dlVars, pidVars, rdVars, wrVars, ifVars, obsVars, flVars>>

SpecRegistry == InitRegistry /\ [][NextRegistry]_vars

\* a resend pass over the in-flight table, no other task at the table
InitResend ==
    /\ clientState
    /\ NewClient(TRUE, 0) /\ now = 0
    /\ PidInit(0)
    /\ RdInit(<<>>, 0, "rd_top")
    /\ WrInit
    /\ RegInit
    /\ ResendInit
    /\ ObsInit
    /\ FlInit

NextResend == ResendNext /\ UNCHANGED <<lifeCore, pidVars, rdVars, regVars, obsVars, flVars>>

SpecResend == InitResend /\ [][NextResend]_vars

\* a resend pass with other tasks at the in-flight table
InitResendConc ==
    /\ clientState
    /\ NewClient(TRUE, 0) /\ now = 0
    /\ PidInit(0)
    /\ RdInit(<<>>, 0, "rd_top")
    /\ WrInit
    /\ RegInit
    /\ ResendConcInit
    /\ ObsInit
    /\ FlInit

NextResendConc == ResendConcNext /\ UNCHANGED <<lifeCore, pidVars, rdVars, regVars, obsVars, flVars>>

SpecResendConc == InitResendConc /\ [][NextResendConc]_vars

\* Read on a stream of packets, watched by an observer
InitObs ==
    /\ clientState
    /\ NewClient(TRUE, 0) /\ now = 0
    /\ PidInit(0)
    /\ ReadInit
    /\ WrInit
    /\ RegInit
    /\ IfEmpty
    /\ ObsInit
    /\ FlInit

NextObs ==
    ObsNext /\ UNCHANGED <<lifeCore, keepalive, connPresent, now, identified,
                           pidVars, wrVars, regVars, ifVars, flVars>>

SpecObs == InitObs /\ [][NextObs]_vars

\* the session from Start() to the end of Stop(), with a task that writes
InitFlush ==
    /\ clientState
    /\ NewClient(TRUE, 0) /\ now = 0
    /\ PidInit(0)
    /\ RdInit(<<>>, 0, "rd_top")
    /\ WrInit
    /\ RegInit
    /\ IfEmpty
    /\ ObsInit
    /\ FlInit

NextFlush ==
    FlushNext /\ UNCHANGED <<keepalive, connPresent, now, identified, pidVars,
                             rdVars, regVars, ifVars, obsVars>>

SpecFlush == InitFlush /\ [][NextFlush]_vars

(***************************************************************************)
(* Claims about the lifecycle.                                             *)
(***************************************************************************)
InStop(p) == pc[p] \in StopPcs

\* C1: in every reachable state, done = 1 implies that the writer drainer and
\* the reader drainer have both returned from their drain call and signalled
\* their ended marker.
C1_DoneImpliesDrainersExited ==
    done = 1 => Exited(WriterTask) /\ Exited(ReaderTask)

\* C2: however many tasks call Stop(), the shutdown body is entered at most
\* once, a Stop() call that has returned has seen the body run exactly once
\* and done set, done only ever changes from 0 to 1 and never goes back to 0.
C2_StopOnce ==
    [][ /\ bodyRuns' <= 1
        /\ (done = 1 => done' = 1)
        /\ (done' # done => done = 0 /\ done' = 1 /\ bodyRuns' = 1)
        /\ \A p \in Callers :
              (pc[p] \in StopPcs /\ pc'[p] = "returned")
                  => (bodyRuns' = 1 /\ done' = 1) ]_vars

\* C2 witness: three Stop() calls (a drainer's and two external ones) have all
\* returned and the body ran once.
C2_Witness ==
    /\ \A e \in Externals : pc[e] = "returned"
    /\ pc[WriterTask] = "returned"
    /\ bodyRuns = 1
    /\ done = 1

\* C3: once Start() has returned and a drainer has exited, done eventually
\* becomes 1, and every Stop() call eventually returns.
C3_StopTerminates ==
    /\ (pc[Starter] = "returned" /\ (Exited(WriterTask) \/ Exited(ReaderTask)))
          ~> (done = 1)
    /\ \A p \in Callers : (pc[Starter] = "returned" /\ InStop(p))
          ~> (pc[p] = "returned")

\* C3 witness: a drainer that called Stop() itself ran the shutdown body - it
\* passed the wait for its own ended signal - and returned, after Start().
C3_Witness ==
    /\ pc[Starter] = "returned"
    /\ \E d \in Drainers : pc[d] = "returned" /\ bodyRuns = 1 /\ done = 1
    /\ \A e \in Externals : pc[e] = "idle"

(***************************************************************************)
(* Claims about the write path.                                            *)
(***************************************************************************)
\* C4: a WritePacket call that finds done = 1 returns (0, ErrConnectionClosed)
\* and changes nothing else: not the writer's mutex, not the bytes in the
\* writer, not the deadline of the connection.
C4_ClosedWriteTouchesNothing ==
    [][ \A c \in WCallers :
          (wpPc[c] = "wp_check" /\ done = 1 /\ wpPc'[c] # "wp_check")
             => /\ wpPc'[c] = "idle"
                /\ wpRes'[c] = [n |-> 0, err |-> "ErrConnectionClosed"]
                /\ \A d \in WCallers \ {c} :
                      wpPc'[d] = wpPc[d] /\ wpRes'[d] = wpRes[d]
                /\ UNCHANGED <<wMu, wOut, wLog, wpPk, wpBuf, wpPos, wpSlot,
                               wpCalls, deadline, dlAt, done>> ]_vars

\* C4 witness: a call has returned ErrConnectionClosed on a session whose
\* writer had taken a frame before and whose deadline was refreshed then.
C4_Witness ==
    /\ done = 1
    /\ \E c \in WCallers : wpRes[c] = [n |-> 0, err |-> "ErrConnectionClosed"]
    /\ wOut # <<>>
    /\ now > 0 /\ dlAt = now

RECURSIVE PushedOf(_)
\* the bytes the acquisitions of the mutex pushed, acquisition by acquisition
PushedOf(log) ==
    IF log = <<>> THEN <<>>
    ELSE SubSeq(Head(log).frame, 1, Head(log).n) \o PushedOf(Tail(log))

\* C5: the bytes in the writer are whole frames, one after the other in the
\* order in which their callers acquired the write mutex; only the caller
\* that holds the mutex now may have pushed a part of its frame.
C5_WholeFramesInLockOrder ==
    /\ wOut = PushedOf(wLog)
    /\ \A i \in 1..Len(wLog) :
          \/ wLog[i].n \in {0, Len(wLog[i].frame)}
          \/ /\ i = Len(wLog)
             /\ wMu = wLog[i].by
             /\ wpPc[wLog[i].by] = "wp_write"

\* C5 witness: a caller has pushed a part of its frame, another caller waits
\* for the mutex, and a frame of an earlier acquisition is in the writer.
C5_Witness ==
    \E c, d \in WCallers :
        /\ c # d
        /\ wpPc[c] = "wp_write" /\ wpPos[c] > 0
        /\ wpPc[d] = "wp_lock"
        /\ \E i \in 1..Len(wLog) : i < wpSlot[c] /\ wLog[i].n > 0

C7_DistinctIds ==
    \A i, j \in DOMAIN pidHist : i # j => pidHist[i] # pidHist[j]

(***************************************************************************)
(* Claims about the read path.                                             *)
(***************************************************************************)
\* C8: for a fixed header whose remaining-length field has k bytes, 1 <= k <=
\* 4, the first k-1 with bit 7 set and the last with it clear, and whose
\* bytes are all buffered, ReadFixedHeader returns no error, sets Remaining
\* to the varint value of the field and commits exactly 1 + k bytes; it
\* returns ErrOversizedLengthIndicator only for four continuation bytes.
C8_FixedHeaderDecodes ==
    LET bs == rStream[1].len
        k == Len(bs)
    IN  /\ (WellFormedLen(bs) /\ rHead >= 1 + k) => rdPc # "returned"
        /\ (WellFormedLen(bs) /\ rdPc = "rp_start")
              => (fhRem = VarintValue(bs) /\ rTail = 1 + k)
        /\ rdErr = "ErrOversizedLengthIndicator"
              => (k >= 4 /\ \A j \in 1..4 : bs[j] >= 128)

\* the first packet boundary after wire offset pos
PacketEnd(s, pos) == Offset(s, PacketOf(s, pos))

\* C9: on a stream of well-formed packets, Read commits the whole of every
\* packet it takes up - header and remaining length, also when the payload
\* does not decode - so the tail is at the next fixed header after each
\* packet, and the handler is invoked once per packet, in wire order.
C9_ReadCommitsWholePackets ==
    /\ rdPc = "rd_top" => rTail = Offset(rStream, Len(handled))
    /\ rdPc = "rd_handle" => rTail = Offset(rStream, Len(handled) + 1)
    /\ (rdPc = "returned" /\ rdErr \notin {"nil", "EOF"})
          => rTail = PacketEnd(rStream, rdStart)
    /\ \A i \in 1..Len(handled) :
          /\ i <= Len(rStream)
          /\ handled[i] = <<Offset(rStream, i - 1),
                            DecodeType(rStream[i].ctl), rStream[i].plen>>

(***************************************************************************)
(* Claims about the keepalive deadline.                                    *)
(***************************************************************************)
\* C10: after a deadline refresh with keepalive k at time t, no deadline is
\* installed when k = 0, and otherwise the deadline is t + k + floor(k/2),
\* which is not earlier than t + k.
C10_DeadlineIsOneAndAHalf ==
    (connPresent /\ dlAt >= 0) =>
        IF keepalive = 0 THEN deadline = NoDeadline
        ELSE /\ deadline = dlAt + keepalive + (keepalive \div 2)
             /\ deadline >= dlAt + keepalive

(***************************************************************************)
(* More claims about the packet id counter and the lifecycle.              *)
(***************************************************************************)
\* C18: with concurrent callers of NextPacketID, every value returned is in
\* 1..65535, and once a call has completed the stored counter is in 1..65535
\* too; 0 and values above 65535 are never returned.
C18_IdsInRange ==
    /\ \A i \in DOMAIN pidHist : pidHist[i] \in 1..MaxPacketID
    /\ packetID \in 0..MaxPacketID
    /\ pidHist # <<>> => packetID >= 1

\* C19: a drainer signals its ended marker only after Start() has registered
\* it on that marker, so the writer-ended and reader-ended counters never
\* drop below zero (a WaitGroup whose counter would drop below zero panics).
C19_EndedAfterRegistered ==
    /\ ~panicked
    /\ endedW >= 0 /\ endedR >= 0
    /\ Exited(WriterTask) =>
          pc[Starter] \notin {"start_add", "go_writer", "add_endedW"}
    /\ Exited(ReaderTask) =>
          pc[Starter] \in {"wait_started", "returned"}

(***************************************************************************)
(* Claims about the registry.                                              *)
(***************************************************************************)
\* the elements of a sequence
Elems(q) == {q[i] : i \in DOMAIN q}

\* C16: GetByListener(L) returns, each once, exactly the sessions that were
\* registered while it held the read lock, whose listener is L and whose done
\* flag was 0 when the call loaded it; the registry does not change while the
\* read lock is held, and a session whose done flag was 1 before the call
\* began is not in the result.
C16_ByListenerLive ==
    /\ gblPc = "range" => regInternal = gblRegAtLock
    /\ gblPc = "returned" =>
          /\ Elems(gblRes) = {s \in Registered(gblRegAtLock) :
                                ListenerOf(s) = gblL /\ gblExam[s] = 0}
          /\ \A s \in Registered(gblRegAtLock) : gblExam[s] # NotExamined
          /\ Len(gblRes) = Cardinality(Elems(gblRes))
          /\ Elems(gblRes) \cap gblDoneAtCall = {}

\* C16 witness: a call returned one session and left out a registered session
\* of the same listener that was done before the call began; the session it
\* returned has become done since.
C16_Witness ==
    /\ gblPc = "returned"
    /\ Len(gblRes) = 1
    /\ \E s \in Registered(gblRegAtLock) \cap gblDoneAtCall : ListenerOf(s) = gblL
    /\ regDone[gblRes[1]] = 1

(***************************************************************************)
(* Claims about the resend pass, run alone at the in-flight table.         *)
(***************************************************************************)
\* the pass has read its clock and has not returned to its caller's next call
PassRuns == rsPc \notin {"idle", "len"}

\* the visit of key id is over: the pass went on to the next key or returned
Visited(id) ==
    /\ id \in rsVisited
    /\ rsKey # id \/ rsPc \in {"range", "returned", "writing"}

\* C11: in a pass that is not forced, a record with resend count k < 6 whose
\* last send is less than resendBackoff[k] seconds before the pass keeps its
\* resend count, its send time and its DUP flag, and nothing is written for
\* it; a record with resend count 0 is eligible in every pass: once visited
\* it is resent.
C11_BackoffHoldsBack ==
    PassRuns =>
        \A id \in Keys(rsStart) :
            LET r == rsStart[id] IN
            /\ ( /\ ~rsForce
                 /\ r.resends < maxResends
                 /\ rsNt - r.sent < resendBackoff[r.resends + 1] )
                  => (ifTable[id] = r /\ id \notin rsWrote)
            /\ (r.resends = 0 /\ Visited(id))
                  => (ifTable[id] = Resent(r, rsNt) /\ id \in rsWrote)

\* C11 witness: a pass that was not forced has returned; it visited a record
\* with resend count 1 sent in the same second and left it alone, and it
\* resent a record with resend count 0.
C11_Witness ==
    /\ rsPc = "returned" /\ ~rsForce
    /\ \E id \in rsVisited :
          /\ rsStart[id].resends = 1 /\ rsStart[id].sent = rsNt
          /\ ifTable[id] = rsStart[id]
    /\ \E id \in rsVisited :
          rsStart[id].resends = 0 /\ ifTable[id].resends = 1

\* C12, as claimed: after a pass over a table that was not empty, whatever
\* the writes of the pass returned, no record that had 6 or more resends when
\* the pass began is in the table.
C12_DroppedAfterAnyPass ==
    (rsPc = "returned" /\ Keys(rsStart) # {}) =>
        \A id \in Keys(rsStart) :
            rsStart[id].resends >= maxResends => ifTable[id] = NoRecord

\* C12, amended: after a pass that returned nil - no write of it failed - no
\* record that had 6 or more resends when the pass began is in the table.
C12_DroppedAfterWholePass ==
    (rsPc = "returned" /\ rsRet = "nil") =>
        \A id \in Keys(rsStart) :
            rsStart[id].resends >= maxResends => ifTable[id] = NoRecord

\* C12 witness: a pass returned nil, dropped a record that had 6 resends and
\* resent another record.
C12_Witness ==
    /\ rsPc = "returned" /\ rsRet = "nil"
    /\ \E id \in Keys(rsStart) :
          rsStart[id].resends = maxResends /\ ifTable[id] = NoRecord
    /\ rsWrote # {}

\* C17: a pass returns at the first write that fails, with that error: it
\* visits no further record; the record whose write failed is in the table
\* with its resend count raised by one and its send time set to the time of
\* the pass, and the records the range had not produced are as they were when
\* the pass began, with nothing written for them.
C17_FailedWriteAbortsPass ==
    /\ (rsPc \in {"range", "visit", "write"} /\ rsWrote # {})
          => wpRes[RsWriter].err = "nil"
    /\ (rsPc = "returned" /\ rsRet # "nil") =>
          /\ rsRet = wpRes[RsWriter].err
          /\ ifTable[rsKey] = Resent(rsStart[rsKey], rsNt)
          /\ \A id \in InflightIds \ rsVisited :
                ifTable[id] = rsStart[id] /\ id \notin rsWrote

\* C17 witness: a pass returned the error of a write, with a record left that
\* the range had not produced.
C17_Witness ==
    /\ rsPc = "returned"
    /\ rsRet \in {"EOF", "ErrConnectionClosed"}
    /\ Keys(rsStart) \ rsVisited # {}
    /\ ifTable[rsKey].resends = rsStart[rsKey].resends + 1

(***************************************************************************)
(* Claims about the in-flight table under concurrent use.                  *)
(***************************************************************************)
\* C15: the map GetAll returned is stable while the pass ranges over it: the
\* range produces every record that was in the table when GetAll returned,
\* with the contents it had then, whatever other tasks set or delete in the
\* meantime.
C15_SnapshotStable ==
    /\ \A k \in rsVisited : rsSeen[k] = rsSnap[k]
    /\ (rsPc = "returned" /\ rsRet = "nil") => rsVisited = Keys(rsSnap)

\* C20: a key that another task deleted while a pass was running, and that
\* no task has set since, is not in the table once the pass has returned.
C20_PassDoesNotReinsert ==
    rsPc = "returned" => \A id \in rsAcked : ifTable[id] = NoRecord

(***************************************************************************)
(* Claims about the end of the read loop.                                  *)
(***************************************************************************)
\* C13: once an observer has seen done = 1 together with no unread bytes in
\* the reader, the handler passed to Read is not invoked again.
C13_QuietAfterDone ==
    obsSeen # NotSeen => Len(handled) = obsSeen

(***************************************************************************)
(* Claims about the frames in the writer at shutdown.                      *)
(***************************************************************************)
\* the bytes in the writer that belong to WritePacket calls that have
\* returned: all but the bytes of a frame that is being pushed now
AcceptedBytes ==
    LET pushing == {c \in WCallers : wpPc[c] \in {"wp_write", "wp_refresh"}}
    IN  IF pushing = {} THEN Len(wOut)
        ELSE Len(wOut) - wpPos[CHOOSE c \in pushing : TRUE]

\* C14: when done is 1, every frame that a WritePacket call accepted and
\* returned success for has been pushed to the connection by the writer
\* drainer; none is left in the writer.
C14_AcceptedFramesFlushed ==
    done = 1 => wSent >= AcceptedBytes

=============================================================================
